---- MODULE Spec2Model ----
(***************************************************************************)
(* Fibonacci spiral art generator (server/generator.py) and the mint        *)
(* preparation endpoint (mint_prepare of server/main.py with its           *)
(* collaborators in server/pinata.py and server/signer.py).                *)
(*                                                                         *)
(* generate_spiral_art allocates a square canvas, then calls               *)
(* draw_polar_ellipses once per entry of LAYERS; draw_polar_ellipses       *)
(* resizes, rotates and pastes `count` copies of the source image around   *)
(* the canvas centre.                                                      *)
(*                                                                         *)
(* Numbers.  Python floats are modelled in fixed point: a length is an     *)
(* integer number of 1/FP pixels, a cosine or sine an integer number of    *)
(* 1/FP.  An angle in degrees is the exact fraction n/d (the code's        *)
(* 90 - i * (360.0 / count) has denominator count).  Integers stay below   *)
(* 2^31; products that would not are split.  A computed length is within   *)
(* a few 1/FP of the float the code computes, so int() of a float that     *)
(* falls this close to a whole number can differ by one pixel from the     *)
(* code's; nothing below depends on which side such a value falls.         *)
(***************************************************************************)
EXTENDS Integers, Sequences, FiniteSets, TLC

\* Resolution of the fixed-point model of a float (a length in pixels, a
\* radian, a cosine or a sine): 1/FP.
FP == 1000000

\* Canvas sizes up to MaxSmall are explored one by one and their canvases
\* are tracked pixel for pixel.
MaxSmall == 8

\* The render calls the host may have in flight at once.
Calls == {1, 2}

\* LAYERS = [1, 8, 13, 21, 34, 55, 89, 144]
LayerTable == <<1, 8, 13, 21, 34, 55, 89, 144>>

\* for layer_idx in range(8)
NumLayers == 8

-----------------------------------------------------------------------------
(* Arithmetic                                                              *)

Abs(v) == IF v < 0 THEN -v ELSE v

Sgn(v) == IF v < 0 THEN -1 ELSE 1

Max(a, b) == IF a >= b THEN a ELSE b

\* Python's int(float): truncation toward zero, of a fixed-point value.
TruncInt(v) == IF v >= 0 THEN v \div FP ELSE -((-v) \div FP)

\* Floor and ceiling of the fixed-point value v/den, as integers.
FloorDiv(v, den) == v \div den

CeilDiv(v, den) == -((-v) \div den)

\* a * b for fixed-point 0 <= a, b <= 1, rounded down; both factors are split in
\* base 1000 so that no partial product leaves the integer range.
MulT(a, b) ==
    LET a1 == a \div 1000
        a0 == a % 1000
        b1 == b \div 1000
        b0 == b % 1000
    IN  a1 * b1 + ((a1 * b0 + a0 * b1) * 1000 + a0 * b0) \div FP

\* t * v for a fixed-point factor |t| <= 1 (a cosine, a sine, 0.61803) and
\* any fixed-point length v, rounded toward zero.
MulTrig(t, v) ==
    LET a == Abs(t)
        b == Abs(v)
    IN  Sgn(t) * Sgn(v) * (a * (b \div FP) + MulT(a, b % FP))

\* n / den for integers n >= 0 and den > 0, as a fixed-point number.
Ratio(n, den) ==
    LET r == (n % den) * 1000
    IN  (n \div den) * FP + (r \div den) * 1000 + ((r % den) * 1000) \div den

\* size / 6.103 as a fixed-point length (size >= 0).
Div6103(size) == Ratio(size * 1000, 6103)

\* a * 0.61803 for a fixed-point length a.
Mul61803(a) == MulTrig(618030, a)

\* a * n / den for a fixed-point length a >= 0 and integers 0 < n <= den.
Scale(a, n, den) == (a \div den) * n + ((a % den) * n) \div den

-----------------------------------------------------------------------------
(* Angles and trigonometry (math.radians, math.cos, math.sin)              *)

\* An angle of n/d degrees.
Deg(n, d) == [n |-> n, d |-> d]

\* math.radians of m/d degrees, 0 <= m/d <= 45, as a fixed-point number:
\* m/d * 0.0174532925.
Radians(m, d) == (m * 17453) \div d + (m * 2925) \div (d * 10000)

\* sin and cos of a fixed-point x in [0, pi/4]: the Taylor polynomial.
SinSmall(x) ==
    LET x2 == MulT(x, x)
        x3 == MulT(x2, x)
        x5 == MulT(x3, x2)
        x7 == MulT(x5, x2)
        x9 == MulT(x7, x2)
    IN  x - x3 \div 6 + x5 \div 120 - x7 \div 5040 + x9 \div 362880

CosSmall(x) ==
    LET x2 == MulT(x, x)
        x4 == MulT(x2, x2)
        x6 == MulT(x4, x2)
        x8 == MulT(x4, x4)
    IN  FP - x2 \div 2 + x4 \div 24 - x6 \div 720 + x8 \div 40320

\* sin of m/d degrees in the first quadrant, 0 <= m <= 90 * d.
SinQ(m, d) ==
    IF m <= 45 * d THEN SinSmall(Radians(m, d))
                   ELSE CosSmall(Radians(90 * d - m, d))

\* math.sin(math.radians(a)) for any angle a, as a fixed-point number.
Sin(a) ==
    LET m == a.n % (360 * a.d)
        q == m \div (90 * a.d)
        r == m % (90 * a.d)
    IN  CASE q = 0 -> SinQ(r, a.d)
          [] q = 1 -> SinQ(90 * a.d - r, a.d)
          [] q = 2 -> -SinQ(r, a.d)
          [] OTHER -> -SinQ(90 * a.d - r, a.d)

\* math.cos(math.radians(a)).
Cos(a) == Sin(Deg(a.n + 90 * a.d, a.d))

-----------------------------------------------------------------------------
(* Inputs                                                                  *)

\* A decoded RGBA source image: its dimensions, and whether its pixels are
\* fully opaque or fully transparent (its alpha channel is the paste mask).
Image(w, h, o) == [width |-> w, height |-> h, opaque |-> o]

Sources ==
    { Image(100, 100, TRUE), Image(200, 100, TRUE),
      Image(100, 300, TRUE), Image(100, 100, FALSE) }

\* Requested canvas sizes; GenerateRequest.size is any int.
Sizes == (-1 .. MaxSmall) \cup {100, 1024}

\* Inputs of the concurrent calls.
ConcSizes == {-1, 3, 1024}

ConcSources == { Image(200, 100, TRUE) }

NoImage == Image(0, 0, FALSE)

NoArgs == [size |-> 0, image |-> NoImage]

\* The pixels of a canvas that the model tracks: all of them on a small
\* canvas, the centre and the four corners on a large one.
Probes(size) ==
    IF size <= MaxSmall
    THEN (0 .. size - 1) \X (0 .. size - 1)
    ELSE { <<size \div 2, size \div 2>>, <<0, 0>>, <<size - 1, 0>>,
           <<0, size - 1>>, <<size - 1, size - 1>> }

\* What a canvas pixel shows: the stamp (layer, i) last composited onto it,
\* or the initial opaque black.
Black == [layer |-> -1, i |-> 0]

NoCanvas == [size |-> -1, px |-> <<>>]

\* Image.new("RGBA", (size, size), (0, 0, 0, 255))
NewCanvas(size) == [size |-> size, px |-> [p \in Probes(size) |-> Black]]

NoFrame == [count |-> 0, radius |-> 0, y_offset |-> 0, angle_step |-> Deg(0, 1)]

-----------------------------------------------------------------------------
(* draw_polar_ellipses: the computation of one item                        *)

\* The step of a loop that would take count + 1 items around the circle.
AngleStepOneMore(count) == Deg(360, count + 1)

\* angle_step = 360.0 / count
AngleStep(count) == Deg(360, count)

\* angle_deg = 90 - i * angle_step
AngleDeg(i, step) == Deg(90 * step.d - i * step.n, step.d)

\* rotation_deg = math.degrees(angle_rad - math.pi / 2)
RotationDeg(a) == Deg(a.n - 90 * a.d, a.d)

\* x = math.cos(angle_rad) * y_offset
PosX(a, y_offset) == MulTrig(Cos(a), y_offset)

\* y = math.sin(angle_rad) * y_offset
PosY(a, y_offset) == MulTrig(Sin(a), y_offset)

\* w after the aspect-ratio branch (ar = width / height).
BoxW(radius, img) ==
    IF img.width > img.height THEN 2 * radius
    ELSE Scale(2 * radius, img.width, img.height)

\* h after the aspect-ratio branch.
BoxH(radius, img) ==
    IF img.width > img.height THEN Scale(2 * radius, img.height, img.width)
    ELSE 2 * radius

\* new_width = max(1, int(w))
NewWidth(radius, img) == Max(1, TruncInt(BoxW(radius, img)))

\* new_height = max(1, int(h))
NewHeight(radius, img) == Max(1, TruncInt(BoxH(radius, img)))

\* if new_width < 1 or new_height < 1: continue
Skipped(new_width, new_height) == new_width < 1 \/ new_height < 1

\* resized.rotate(theta, expand=True): the size of the rotated image, and
\* the cosine and sine of the rotation that maps its pixels back to the
\* resized source.  A quarter turn is a transpose, which swaps the sides;
\* any other angle gives the bounding box of the rotated w x h rectangle,
\* ceil(max) - floor(min) over its corners.
Rotated(w, h, theta) ==
    LET c  == Cos(theta)
        s  == Sin(theta)
        ex == w * Abs(c) + h * Abs(s)
        ey == w * Abs(s) + h * Abs(c)
    IN  IF theta.n % (180 * theta.d) = 90 * theta.d
        THEN [width |-> h, height |-> w, cosr |-> c, sinr |-> s]
        ELSE [width  |-> CeilDiv(w * FP + ex, 2 * FP) - FloorDiv(w * FP - ex, 2 * FP),
              height |-> CeilDiv(h * FP + ey, 2 * FP) - FloorDiv(h * FP - ey, 2 * FP),
              cosr |-> c, sinr |-> s]

\* The paste origin without the canvas centre added.
PasteAtNoCenter(center_c, pos, extent) == TruncInt(pos - (extent \div 2) * FP)

\* The paste origin with the whole extent, not half of it, subtracted.
PasteAtFullExtent(center_c, pos, extent) == TruncInt(center_c * FP + pos - extent * FP)

\* paste_x = int(center_x + x - rotated.width // 2), likewise paste_y
PasteAt(center_c, pos, extent) == TruncInt(center_c * FP + pos - (extent \div 2) * FP)

\* The stamp item i of a layer puts on the canvas: everything lines 87-123
\* compute for it.
Stamp(layer, i, fr, center, img) ==
    LET a     == AngleDeg(i, fr.angle_step)
        x     == PosX(a, fr.y_offset)
        y     == PosY(a, fr.y_offset)
        theta == Deg(-(RotationDeg(a).n), a.d)
        nw    == NewWidth(fr.radius, img)
        nh    == NewHeight(fr.radius, img)
        rot   == Rotated(nw, nh, theta)
    IN  [layer |-> layer, i |-> i, count |-> fr.count, angle |-> a,
         x |-> x, y |-> y, radius |-> fr.radius, y_offset |-> fr.y_offset,
         new_width |-> nw, new_height |-> nh,
         cosr |-> rot.cosr, sinr |-> rot.sinr,
         rw |-> rot.width, rh |-> rot.height,
         paste_x |-> PasteAt(center[1], x, rot.width),
         paste_y |-> PasteAt(center[2], y, rot.height),
         opaque |-> img.opaque]

\* Whether the rotated stamp st, pasted with itself as mask, writes canvas
\* pixel p: p lies in the pasted box and the centre of p maps back, through
\* the inverse rotation, into the resized source rectangle, which is opaque.
Covers(st, p) ==
    /\ st.opaque
    /\ st.paste_x <= p[1] /\ p[1] < st.paste_x + st.rw
    /\ st.paste_y <= p[2] /\ p[2] < st.paste_y + st.rh
    /\ LET dx == (p[1] - st.paste_x) * FP + FP \div 2 - st.rw * (FP \div 2)
           dy == (p[2] - st.paste_y) * FP + FP \div 2 - st.rh * (FP \div 2)
           u  == MulTrig(st.cosr, dx) - MulTrig(st.sinr, dy)
           v  == MulTrig(st.sinr, dx) + MulTrig(st.cosr, dy)
       IN  /\ -(st.new_width * (FP \div 2)) <= u /\ u < st.new_width * (FP \div 2)
           /\ -(st.new_height * (FP \div 2)) <= v /\ v < st.new_height * (FP \div 2)

\* A paste that composites the stamp under what the canvas already shows.
PasteUnder(cv, st) ==
    [cv EXCEPT !.px = [p \in DOMAIN cv.px |->
                          IF Covers(st, p) /\ cv.px[p] = Black
                          THEN [layer |-> st.layer, i |-> st.i]
                          ELSE cv.px[p]]]

\* canvas.paste(rotated, (paste_x, paste_y), rotated)
Paste(cv, st) ==
    [cv EXCEPT !.px = [p \in DOMAIN cv.px |->
                          IF Covers(st, p) THEN [layer |-> st.layer, i |-> st.i]
                          ELSE cv.px[p]]]

-----------------------------------------------------------------------------
(* State                                                                   *)

VARIABLES
    LAYERS,        \* the module-level table of layer counts
    pc,            \* per call: where the call is
    args,          \* per call: (size, decoded image bytes) it was called with
    input_image,   \* per call: the local input_image
    canvas,        \* per call: the local canvas
    center,        \* per call: (center_x, center_y)
    current_size,  \* per call: current_size, fixed point
    y_position,    \* per call: y_position, fixed point
    layer_idx,     \* per call: layer_idx of the for loop
    frame,         \* per call: the arguments of the running draw_polar_ellipses
    i,             \* per call: i of the for loop of draw_polar_ellipses
    logging,       \* whether the two logs below are kept in this run
    drawn,         \* per call: the draw_polar_ellipses calls made so far
    stamps,        \* per call: the canvas.paste calls made so far
    environ,       \* os.environ: the names of the variables that are set
    request,       \* the MintPrepareRequest of the mint_prepare call
    mint_pc,       \* where the mint_prepare call is
    is_new_creation, \* mint_prepare's local is_new_creation
    metadata_uri,  \* mint_prepare's local metadata_uri
    image_bytes,   \* mint_prepare's local image_bytes
    image_cid,     \* mint_prepare's local image_cid
    response,      \* the MintPrepareResponse returned, once returned
    steps,         \* the steps of mint_prepare completed so far
    pinata         \* the pinning requests Pinata has received

mint_vars == <<environ, request, mint_pc, is_new_creation, metadata_uri,
               image_bytes, image_cid, response, steps, pinata>>

vars == <<LAYERS, pc, args, input_image, canvas, center, current_size,
          y_position, layer_idx, frame, i, logging, drawn, stamps,
          environ, request, mint_pc, is_new_creation, metadata_uri,
          image_bytes, image_cid, response, steps, pinata>>

\* Optional values: None, or one value.
None == <<>>

Some(v) == <<v>>

\* No mint_prepare call has been issued.
NoRequest == [image_base64 |-> <<>>, creator_address |-> <<>>, nonce |-> 0,
              token_id |-> -1]

NoResponse == [success |-> FALSE, token_id |-> None, metadata_uri |-> None,
               signature |-> None, deadline |-> None, nonce |-> None,
               contract_address |-> None, chain_id |-> None, error |-> None]

\* mint_prepare with the given request in the given environment: not
\* called (mint_pc "idle") or called and about to run (mint_pc "start").
InitMintCall(envs, requests, at) ==
    /\ environ \in envs
    /\ request \in requests
    /\ mint_pc = at
    /\ is_new_creation = FALSE
    /\ metadata_uri = <<>>
    /\ image_bytes = <<>>
    /\ image_cid = <<>>
    /\ response = NoResponse
    /\ steps = <<>>
    /\ pinata = <<>>

\* The logs are observers of the program, not part of it: a log grows by
\* one entry per call when it is kept and stays empty otherwise.
Logged(log, entry) == IF logging THEN Append(log, entry) ELSE log

\* One canvas shared by every call, as a module-level canvas would be.
CanvasShared(c) == 1

\* The canvas object call c pastes onto: its own local `canvas`.
CanvasOf(c) == c

\* A call that has been issued with the given arguments (started) or not.
InitCalls(started, sizes, sources, log) ==
    /\ LAYERS = LayerTable
    /\ logging = log
    /\ args \in [Calls -> [size : sizes, image : sources] \cup {NoArgs}]
    /\ \A c \in Calls : (args[c] = NoArgs) <=> (c \notin started)
    /\ pc = [c \in Calls |-> IF c \in started THEN "start" ELSE "idle"]
    /\ input_image = [c \in Calls |-> NoImage]
    /\ canvas = [c \in Calls |-> NoCanvas]
    /\ center = [c \in Calls |-> <<0, 0>>]
    /\ current_size = [c \in Calls |-> 0]
    /\ y_position = [c \in Calls |-> 0]
    /\ layer_idx = [c \in Calls |-> 0]
    /\ frame = [c \in Calls |-> NoFrame]
    /\ i = [c \in Calls |-> 0]
    /\ drawn = [c \in Calls |-> <<>>]
    /\ stamps = [c \in Calls |-> <<>>]

\* One render call.
Init ==
    /\ InitCalls({1}, Sizes, Sources, TRUE)
    /\ InitMintCall({{}}, {NoRequest}, "idle")

\* Two render calls issued concurrently.  The calls are interchangeable, so
\* the first is the one with the smaller size.
InitConc ==
    /\ InitCalls(Calls, ConcSizes, ConcSources, FALSE)
    /\ args[1].size <= args[2].size
    /\ InitMintCall({{}}, {NoRequest}, "idle")

-----------------------------------------------------------------------------
(* generate_spiral_art                                                     *)

\* Lines 28-40 for a size Image.new accepts (size >= 0): decode the input,
\* allocate the canvas, set the centre and the recurrence's start values.
Begin(c) ==
    /\ pc[c] = "start"
    /\ args[c].size >= 0
    /\ input_image' = [input_image EXCEPT ![c] = args[c].image]
    /\ canvas' = [canvas EXCEPT ![CanvasOf(c)] = NewCanvas(args[c].size)]
    /\ center' = [center EXCEPT ![c] = <<args[c].size \div 2, args[c].size \div 2>>]
    /\ current_size' = [current_size EXCEPT ![c] = Div6103(args[c].size)]
    /\ y_position' = [y_position EXCEPT ![c] = 0]
    /\ layer_idx' = [layer_idx EXCEPT ![c] = 0]
    /\ pc' = [pc EXCEPT ![c] = "layer"]
    /\ UNCHANGED <<LAYERS, logging, args, frame, i, drawn, stamps>>
    /\ UNCHANGED mint_vars

\* Lines 28-31 for a negative size: Image.new raises ValueError, which
\* leaves generate_spiral_art before anything else happens.
BeginError(c) ==
    /\ pc[c] = "start"
    /\ args[c].size < 0
    /\ input_image' = [input_image EXCEPT ![c] = args[c].image]
    /\ pc' = [pc EXCEPT ![c] = "error"]
    /\ UNCHANGED <<LAYERS, logging, args, canvas, center, current_size, y_position,
                   layer_idx, frame, i, drawn, stamps>>
    /\ UNCHANGED mint_vars

\* The arguments of the draw_polar_ellipses call of lines 45-52.
Frame(count, size_now, y_now) ==
    [count |-> count, radius |-> size_now \div 2, y_offset |-> y_now,
     angle_step |-> AngleStep(count)]

\* Lines 43-52 and 81-82: the next iteration of the layer loop calls
\* draw_polar_ellipses, which computes angle_step and enters its loop.
DrawLayer(c) ==
    /\ pc[c] = "layer"
    /\ layer_idx[c] < NumLayers
    /\ LET fr == Frame(LAYERS[layer_idx[c] + 1], current_size[c], y_position[c])
       IN  /\ frame' = [frame EXCEPT ![c] = fr]
           /\ drawn' = [drawn EXCEPT ![c] =
                  Logged(@, [count |-> fr.count, radius |-> fr.radius,
                             y_offset |-> fr.y_offset])]
    /\ i' = [i EXCEPT ![c] = 1]
    /\ pc' = [pc EXCEPT ![c] = "item"]
    /\ UNCHANGED <<LAYERS, logging, args, input_image, canvas, center, current_size,
                   y_position, layer_idx, stamps>>
    /\ UNCHANGED mint_vars

\* Lines 84-126: one iteration of the item loop.
Item(c) ==
    /\ pc[c] = "item"
    /\ i[c] <= frame[c].count
    /\ \E st \in {Stamp(layer_idx[c], i[c], frame[c], center[c], input_image[c])} :
           IF Skipped(st.new_width, st.new_height)
           THEN UNCHANGED <<canvas, stamps>>
           ELSE /\ canvas' = [canvas EXCEPT ![CanvasOf(c)] = Paste(@, st)]
                /\ stamps' = [stamps EXCEPT ![c] = Logged(@, st)]
    /\ i' = [i EXCEPT ![c] = @ + 1]
    /\ UNCHANGED <<LAYERS, logging, pc, args, input_image, center, current_size,
                   y_position, layer_idx, frame, drawn>>
    /\ UNCHANGED mint_vars

\* The same step taken after current_size has already been overwritten.
NextYAfterUpdate(y_now, size_now, next_size) ==
    y_now - next_size \div 2 - Mul61803(next_size) - next_size \div 2

\* y_position - current_size / 2 - next_size * 0.61803 - next_size / 2
NextY(y_now, size_now, next_size) ==
    y_now - size_now \div 2 - Mul61803(next_size) - next_size \div 2

\* Lines 54-57: draw_polar_ellipses has returned; step the recurrence.
NextLayer(c) ==
    /\ pc[c] = "item"
    /\ i[c] > frame[c].count
    /\ LET next_size == Mul61803(current_size[c])
       IN  /\ y_position' = [y_position EXCEPT ![c] =
                                NextY(@, current_size[c], next_size)]
           /\ current_size' = [current_size EXCEPT ![c] = next_size]
    /\ layer_idx' = [layer_idx EXCEPT ![c] = @ + 1]
    /\ pc' = [pc EXCEPT ![c] = "layer"]
    /\ UNCHANGED <<LAYERS, logging, args, input_image, canvas, center, frame, i,
                   drawn, stamps>>
    /\ UNCHANGED mint_vars

\* Line 59: return canvas.
Return(c) ==
    /\ pc[c] = "layer"
    /\ layer_idx[c] = NumLayers
    /\ pc' = [pc EXCEPT ![c] = "done"]
    /\ UNCHANGED <<LAYERS, logging, args, input_image, canvas, center, current_size,
                   y_position, layer_idx, frame, i, drawn, stamps>>
    /\ UNCHANGED mint_vars

Next ==
    \E c \in Calls :
        \/ Begin(c)
        \/ BeginError(c)
        \/ DrawLayer(c)
        \/ Item(c)
        \/ NextLayer(c)
        \/ Return(c)

Spec == Init /\ [][Next]_vars

SpecConc == InitConc /\ [][Next]_vars

-----------------------------------------------------------------------------
(* mint_prepare: strings, base64 and Python's call binding                 *)

\* Strings are sequences of one-character strings.
DataPrefix == <<"d", "a", "t", "a", ":">>

\* s.startswith(p)
StartsWith(s, p) == Len(s) >= Len(p) /\ SubSeq(s, 1, Len(p)) = p

\* s.split(",", 1): one part when s has no comma, else the text before the
\* first comma and the text after it.
SplitComma(s) ==
    LET at == {k \in 1 .. Len(s) : s[k] = ","}
    IN  IF at = {} THEN <<s>>
        ELSE LET k == CHOOSE k \in at : \A m \in at : k <= m
             IN  <<SubSeq(s, 1, k - 1), SubSeq(s, k + 1, Len(s))>>

\* s[:n]
Prefix(s, n) == SubSeq(s, 1, IF Len(s) < n THEN Len(s) ELSE n)

B64Digits ==
    <<"A", "B", "C", "D", "E", "F", "G", "H", "I", "J", "K", "L", "M",
      "N", "O", "P", "Q", "R", "S", "T", "U", "V", "W", "X", "Y", "Z",
      "a", "b", "c", "d", "e", "f", "g", "h", "i", "j", "k", "l", "m",
      "n", "o", "p", "q", "r", "s", "t", "u", "v", "w", "x", "y", "z",
      "0", "1", "2", "3", "4", "5", "6", "7", "8", "9", "+", "/">>

IsB64Digit(ch) == \E k \in 1 .. Len(B64Digits) : B64Digits[k] = ch

B64Value(ch) == (CHOOSE k \in 1 .. Len(B64Digits) : B64Digits[k] = ch) - 1

\* The bytes of a sequence of 6-bit values: three bytes per four values,
\* one byte for two trailing values and two bytes for three.
RECURSIVE B64Bytes(_)
B64Bytes(v) ==
    IF Len(v) >= 4
    THEN LET word == ((v[1] * 64 + v[2]) * 64 + v[3]) * 64 + v[4]
         IN  <<word \div 65536, (word \div 256) % 256, word % 256>>
                 \o B64Bytes(SubSeq(v, 5, Len(v)))
    ELSE IF Len(v) = 3
    THEN LET word == (v[1] * 64 + v[2]) * 64 + v[3]
         IN  <<word \div 1024, (word \div 4) % 256>>
    ELSE IF Len(v) = 2
    THEN <<(v[1] * 64 + v[2]) \div 16>>
    ELSE <<>>

\* base64.b64decode(s) without validation: characters outside the alphabet
\* are dropped, the data characters are decoded, and the padding has to
\* complete the last group ("=" occurs only at the end of the inputs used).
B64Decode(s) ==
    LET data == SelectSeq(s, IsB64Digit)
        pads == Cardinality({k \in 1 .. Len(s) : s[k] = "="})
        r    == Len(data) % 4
    IN  [ok    |-> \/ r = 0
                   \/ r = 2 /\ pads >= 2
                   \/ r = 3 /\ pads >= 1,
         bytes |-> B64Bytes([k \in 1 .. Len(data) |-> B64Value(data[k])])]

\* Python binds a call to a signature: npos positional arguments take the
\* first parameters, keywords take theirs, no parameter is bound twice and
\* every parameter without a default is bound; otherwise TypeError.
Binds(params, defaults, npos, keywords) ==
    LET positional == {params[k] : k \in 1 .. (IF npos < Len(params) THEN npos ELSE Len(params))}
        names      == {params[k] : k \in 1 .. Len(params)}
    IN  /\ npos <= Len(params)
        /\ keywords \subseteq names
        /\ keywords \cap positional = {}
        /\ \A p \in names : p \in positional \cup keywords \cup defaults

\* def upload_image_to_ipfs(image_data, filename="artwork.png")
UploadImageParams == <<"image_data", "filename">>

UploadImageDefaults == {"filename"}

\* def upload_metadata_to_ipfs(name, description, image_cid, fid,
\*                             creator_address, token_id=None)
UploadMetadataParams ==
    <<"name", "description", "image_cid", "fid", "creator_address", "token_id">>

UploadMetadataDefaults == {"token_id"}

\* def create_mint_signature(minter_address, token_id, uri, amount, fid,
\*                           nonce, deadline=None)
CreateMintSignatureParams ==
    <<"minter_address", "token_id", "uri", "amount", "fid", "nonce", "deadline">>

CreateMintSignatureDefaults == {"deadline"}

\* The value a call passes for a parameter, or the parameter's default.
Arg(call, name, default) == IF name \in DOMAIN call THEN call[name] ELSE default

-----------------------------------------------------------------------------
(* mint_prepare: inputs and collaborators                                  *)

EnvNames == {"PINATA_API_KEY", "PINATA_SECRET_KEY", "SIGNER_PRIVATE_KEY",
             "CONTRACT_ADDRESS"}

\* A fully configured server, and servers with one variable missing.
\* CHAIN_ID is never set, so the chain id is the default one.
Environs == {EnvNames} \cup {EnvNames \ {v} : v \in EnvNames}

DEFAULT_CHAIN_ID == 8453

ContractAddress == <<"0", "x", "C", "0", "d", "e">>

SignerKey == <<"0", "x", "5", "1", "6">>

\* "data:,QUJD", "QUI=", "", "data:QQ==" (no comma), "QQ" (bad padding)
Images ==
    { <<"d", "a", "t", "a", ":", ",", "Q", "U", "J", "D">>,
      <<"Q", "U", "I", "=">>,
      <<>>,
      <<"d", "a", "t", "a", ":", "Q", "Q", "=", "=">>,
      <<"Q", "Q">> }

Addresses == { <<"0", "x", "A", "b", "C", "d", "E", "f", "0", "1">> }

Nonces == {0, 7}

TokenIds == {0, 1, 2}

Requests == [image_base64 : Images, creator_address : Addresses,
             nonce : Nonces, token_id : TokenIds]

\* time.time() when the signature is made.
Clock == {1700000000, 1700003599}

\* The answers of Pinata's pinning endpoints.
Statuses == {200, 500}

\* get_pinata_headers raises ValueError unless both keys are set.
PinataConfigured == {"PINATA_API_KEY", "PINATA_SECRET_KEY"} \subseteq environ

\* result["IpfsHash"]: the content identifier of what was pinned.
IpfsHash(content) == <<"Qm", content>>

\* f"ipfs://{cid}"
ipfs_uri(cid) == <<"ipfs://">> \o cid

\* The ERC-1155 metadata document upload_metadata_to_ipfs builds.
Metadata(call) ==
    [name |-> call.name, description |-> call.description,
     image |-> ipfs_uri(call.image_cid),
     attributes |->
         <<[trait_type |-> "Creator FID", value |-> call.fid],
           [trait_type |-> "Creator Address", value |-> call.creator_address]>>
         \o (IF Arg(call, "token_id", None) = None THEN <<>>
             ELSE <<[trait_type |-> "Token ID", value |-> call.token_id]>>)]

\* get_signer_account and get_contract_address raise ValueError unless
\* their variables are set.
SignerConfigured == {"SIGNER_PRIVATE_KEY", "CONTRACT_ADDRESS"} \subseteq environ

\* The dict create_mint_signature returns for a call made at time now.
SigResult(call, now) ==
    LET deadline == IF Arg(call, "deadline", None) = None THEN now + 3600
                    ELSE call.deadline
        message  == [minter |-> call.minter_address, tokenId |-> call.token_id,
                     uri |-> call.uri, amount |-> call.amount, fid |-> call.fid,
                     nonce |-> call.nonce, deadline |-> deadline]
    IN  [signature |-> [key |-> SignerKey, chainId |-> DEFAULT_CHAIN_ID,
                        verifyingContract |-> ContractAddress,
                        message |-> message],
         deadline |-> deadline, token_id |-> call.token_id,
         nonce |-> call.nonce, signer |-> SignerKey]

\* MintPrepareResponse(success=False, error=str(e))
Failure(e) == [NoResponse EXCEPT !.error = Some(e)]

\* The MintPrepareResponse of lines 219-228.
Success(sig_result) ==
    [success |-> TRUE,
     token_id |-> Some(request.token_id),
     metadata_uri |-> IF metadata_uri = <<>> THEN None ELSE Some(metadata_uri),
     signature |-> Some(sig_result.signature),
     deadline |-> Some(sig_result.deadline),
     nonce |-> Some(request.nonce),
     contract_address |-> Some(IF "CONTRACT_ADDRESS" \in environ
                               THEN ContractAddress ELSE <<>>),
     chain_id |-> Some(DEFAULT_CHAIN_ID),
     error |-> None]

gen_vars == <<LAYERS, pc, args, input_image, canvas, center, current_size,
              y_position, layer_idx, frame, i, logging, drawn, stamps>>

\* One mint_prepare call on a server that is rendering nothing.
InitMint ==
    /\ InitCalls({}, Sizes, Sources, FALSE)
    /\ InitMintCall(Environs, Requests, "start")

-----------------------------------------------------------------------------
(* mint_prepare                                                            *)

\* Lines 230-235 or a return statement: the handler answers and ends.
Returns(resp) ==
    /\ response' = resp
    /\ mint_pc' = "done"

\* Lines 172-177.
MintStart ==
    /\ mint_pc = "start"
    /\ is_new_creation' = (request.token_id = 0)
    /\ metadata_uri' = <<>>
    /\ mint_pc' = IF request.token_id = 0 THEN "decode" ELSE "sign"
    /\ UNCHANGED <<environ, request, image_bytes, image_cid, response, steps, pinata>>
    /\ UNCHANGED gen_vars

\* Lines 179-183: strip the data-URL header, decode the base64 text.
Decode ==
    /\ mint_pc = "decode"
    /\ LET s     == request.image_base64
           parts == SplitComma(s)
       IN  IF StartsWith(s, DataPrefix) /\ Len(parts) < 2
           THEN Returns(Failure("IndexError")) /\ UNCHANGED <<image_bytes, steps>>
           ELSE LET decoded == B64Decode(IF StartsWith(s, DataPrefix)
                                         THEN parts[2] ELSE s)
                IN  IF decoded.ok
                    THEN /\ image_bytes' = decoded.bytes
                         /\ steps' = Append(steps, "decode")
                         /\ mint_pc' = "upload_image"
                         /\ UNCHANGED response
                    ELSE Returns(Failure("binascii.Error"))
                             /\ UNCHANGED <<image_bytes, steps>>
    /\ UNCHANGED <<environ, request, is_new_creation, metadata_uri, image_cid, pinata>>
    /\ UNCHANGED gen_vars

\* Lines 187-191 with pinata.py 39-64: pin the image file.
UploadImage ==
    /\ mint_pc = "upload_image"
    /\ LET call == [filename |-> <<"compusophlet-">>
                        \o Prefix(request.creator_address, 8) \o <<".png">>]
       IN  IF ~Binds(UploadImageParams, UploadImageDefaults, 1, DOMAIN call)
           THEN Returns(Failure("TypeError")) /\ UNCHANGED <<image_cid, steps, pinata>>
           ELSE IF ~PinataConfigured
           THEN Returns(Failure("ValueError")) /\ UNCHANGED <<image_cid, steps, pinata>>
           ELSE \E status \in Statuses :
                    /\ pinata' = Append(pinata,
                           [endpoint |-> "pinFileToIPFS", name |-> call.filename,
                            content |-> image_bytes, status |-> status])
                    /\ IF status # 200
                       THEN Returns(Failure("Exception")) /\ UNCHANGED <<image_cid, steps>>
                       ELSE /\ image_cid' = IpfsHash(image_bytes)
                            /\ steps' = Append(steps, "upload_image")
                            /\ mint_pc' = "upload_metadata"
                            /\ UNCHANGED response
    /\ UNCHANGED <<environ, request, is_new_creation, metadata_uri, image_bytes>>
    /\ UNCHANGED gen_vars

\* Lines 197-202 with pinata.py 67-134: build and pin the metadata JSON.
UploadMetadata ==
    /\ mint_pc = "upload_metadata"
    /\ LET call == [image_cid |-> image_cid, token_id |-> 0]
       IN  IF ~Binds(UploadMetadataParams, UploadMetadataDefaults, 0, DOMAIN call)
           THEN Returns(Failure("TypeError")) /\ UNCHANGED <<metadata_uri, steps, pinata>>
           ELSE IF ~PinataConfigured
           THEN Returns(Failure("ValueError")) /\ UNCHANGED <<metadata_uri, steps, pinata>>
           ELSE \E status \in Statuses :
                    /\ pinata' = Append(pinata,
                           [endpoint |-> "pinJSONToIPFS",
                            name |-> <<"GenerativePFP-", call.fid, "-metadata.json">>,
                            content |-> Metadata(call), status |-> status])
                    /\ IF status # 200
                       THEN Returns(Failure("Exception"))
                                /\ UNCHANGED <<metadata_uri, steps>>
                       ELSE /\ metadata_uri' = ipfs_uri(IpfsHash(Metadata(call)))
                            /\ steps' = Append(steps, "upload_metadata")
                            /\ mint_pc' = "sign"
                            /\ UNCHANGED response
    /\ UNCHANGED <<environ, request, is_new_creation, image_bytes, image_cid>>
    /\ UNCHANGED gen_vars

\* Lines 206-228 with signer.py 48-126: sign the mint authorization and
\* return the success response.
Sign ==
    /\ mint_pc = "sign"
    /\ LET call == [minter_address |-> request.creator_address,
                    token_id |-> request.token_id, uri |-> metadata_uri,
                    amount |-> 1, nonce |-> request.nonce]
       IN  IF ~Binds(CreateMintSignatureParams, CreateMintSignatureDefaults,
                     0, DOMAIN call)
           THEN Returns(Failure("TypeError")) /\ UNCHANGED steps
           ELSE IF ~SignerConfigured
           THEN Returns(Failure("ValueError")) /\ UNCHANGED steps
           ELSE \E now \in Clock :
                    /\ steps' = Append(steps, "sign")
                    /\ Returns(Success(SigResult(call, now)))
    /\ UNCHANGED <<environ, request, is_new_creation, metadata_uri, image_bytes,
                   image_cid, pinata>>
    /\ UNCHANGED gen_vars

NextMint ==
    \/ MintStart
    \/ Decode
    \/ UploadImage
    \/ UploadMetadata
    \/ Sign

SpecMint == InitMint /\ [][NextMint]_vars

-----------------------------------------------------------------------------
(* Properties                                                              *)

\* The calls that have left generate_spiral_art's first lines.
Entered(c) == pc[c] \notin {"idle", "start"}

\* The stamps of layer k in a log, in the order they were pasted.
OfLayer(log, k) == SelectSeq(log, LAMBDA st : st.layer = k)

\* The count sequence and the recurrence as the layer schedule states them.
ScheduleCounts == <<1, 8, 13, 21, 34, 55, 89, 144>>

RECURSIVE ScheduleSize(_, _)
ScheduleSize(size, k) ==
    IF k = 0 THEN Div6103(size) ELSE Mul61803(ScheduleSize(size, k - 1))

RECURSIVE ScheduleY(_, _)
ScheduleY(size, k) ==
    IF k = 0 THEN 0
    ELSE ScheduleY(size, k - 1) - ScheduleSize(size, k - 1) \div 2
         - Mul61803(ScheduleSize(size, k)) - ScheduleSize(size, k) \div 2

\* C1: for every positive size the draw_polar_ellipses calls are made in
\* order with counts [1, 8, 13, 21, 34, 55, 89, 144], call k with
\* radius = currentSize_k / 2 and y_offset = yPosition_k of the recurrence
\* currentSize_0 = size / 6.103, yPosition_0 = 0,
\* currentSize_{k+1} = currentSize_k * 0.61803,
\* yPosition_{k+1} = yPosition_k - currentSize_k / 2
\*                   - currentSize_{k+1} * 0.61803 - currentSize_{k+1} / 2;
\* a finished render has made exactly 8 of them.
C1_LayerSchedule ==
    \A c \in Calls :
        args[c].size > 0 =>
            /\ Len(drawn[c]) <= 8
            /\ pc[c] = "done" => Len(drawn[c]) = 8
            /\ \A k \in 1 .. Len(drawn[c]) :
                  /\ drawn[c][k].count = ScheduleCounts[k]
                  /\ drawn[c][k].radius = ScheduleSize(args[c].size, k - 1) \div 2
                  /\ drawn[c][k].y_offset = ScheduleY(args[c].size, k - 1)

C1_Witness ==
    /\ pc[1] = "done"
    /\ args[1].size = 1024
    /\ Len(drawn[1]) = 8
    /\ drawn[1][8].count = 144
    /\ drawn[1][8].y_offset < drawn[1][7].y_offset

\* C2: a size <= 0 is rejected before any computation: the call reports an
\* error, allocates no canvas and draws no layer.
C2_RejectsInvalidSize ==
    \A c \in Calls :
        (Entered(c) /\ args[c].size <= 0) =>
            /\ pc[c] = "error"
            /\ canvas[c] = NoCanvas
            /\ drawn[c] = <<>>

\* C3: an item whose computed width or height is below one pixel is skipped:
\* in a render of positive size no stamp that was composited has a computed
\* w or h that int() takes to less than 1 (so a layer whose radius is too
\* small for one pixel composites no stamp).
C3_DegenerateSkipped ==
    \A c \in Calls :
        args[c].size > 0 =>
            \A k \in 1 .. Len(stamps[c]) :
                /\ TruncInt(BoxW(stamps[c][k].radius, input_image[c])) >= 1
                /\ TruncInt(BoxH(stamps[c][k].radius, input_image[c])) >= 1

\* The sign of the turn from stamp position s to stamp position t about the
\* canvas centre: positive when t is clockwise of s on the canvas (origin at
\* the centre, y pointing down).  Both positions are scaled down together
\* so that the products stay in range.
Turn(s, t) ==
    LET m == Max(Max(Abs(s.x), Abs(s.y)), Max(Abs(t.x), Abs(t.y)))
        D == m \div 30000 + 1
    IN  (s.x \div D) * (t.y \div D) - (s.y \div D) * (t.x \div D)

\* C4: in a ring (y_offset # 0) item i = count lies directly above the canvas
\* centre, and going from item i to item i + 1 moves the stamp position
\* clockwise as seen on the canvas.
C4_TopThenClockwise ==
    \A c \in Calls :
        \A k \in 1 .. Len(stamps[c]) :
            stamps[c][k].y_offset # 0 =>
                /\ stamps[c][k].i = stamps[c][k].count =>
                      (stamps[c][k].x = 0 /\ stamps[c][k].y < 0)
                /\ (k < Len(stamps[c]) /\ stamps[c][k + 1].layer = stamps[c][k].layer) =>
                      Turn(stamps[c][k], stamps[c][k + 1]) > 0

\* C5: stamps are composited layer 0 to 7 in order, within a layer for
\* i = 1..count ascending, all of layer k before any of layer k + 1; and in
\* the returned canvas a pixel that a stamp of some layer covers shows a
\* stamp of that layer or of a later one.
C5_LayerOrderOcclusion ==
    \A c \in Calls :
        /\ Len(stamps[c]) > 0 => (stamps[c][1].layer = 0 /\ stamps[c][1].i = 1)
        /\ \A k \in 1 .. Len(stamps[c]) - 1 :
              \/ /\ stamps[c][k + 1].layer = stamps[c][k].layer
                 /\ stamps[c][k + 1].i = stamps[c][k].i + 1
              \/ /\ stamps[c][k + 1].layer = stamps[c][k].layer + 1
                 /\ stamps[c][k].i = stamps[c][k].count
                 /\ stamps[c][k + 1].i = 1
        /\ pc[c] = "done" =>
              /\ Len(stamps[c]) > 0 => stamps[c][Len(stamps[c])].layer = 7
              /\ \A p \in DOMAIN canvas[c].px :
                    \A k \in 1 .. Len(stamps[c]) :
                        Covers(stamps[c][k], p) =>
                            canvas[c].px[p].layer >= stamps[c][k].layer

C5_Witness ==
    /\ pc[1] = "done"
    /\ args[1].size > 0
    /\ \E p \in DOMAIN canvas[1].px :
          \E k \in 1 .. Len(stamps[1]) :
              /\ Covers(stamps[1][k], p)
              /\ \E j \in k + 1 .. Len(stamps[1]) :
                    /\ stamps[1][j].layer > stamps[1][k].layer
                    /\ Covers(stamps[1][j], p)
                    /\ canvas[1].px[p].layer >= stamps[1][j].layer

\* C6: for a 100x100 fully opaque source and size = 1024 the canvas is
\* 1024x1024, pixel (512, 512) is written by the first layer's single stamp
\* and by no later stamp, and no stamp of any layer writes a corner pixel:
\* the four corners keep the initial black.
C6_CentreAndCorners ==
    \A c \in Calls :
        (/\ args[c].size = 1024
         /\ args[c].image = Image(100, 100, TRUE)
         /\ pc[c] \in {"layer", "item", "done"}) =>
            /\ canvas[c].size = 1024
            /\ \A p \in {<<0, 0>>, <<1023, 0>>, <<0, 1023>>, <<1023, 1023>>} :
                  /\ canvas[c].px[p] = Black
                  /\ \A k \in 1 .. Len(stamps[c]) : ~Covers(stamps[c][k], p)
            /\ Len(stamps[c]) > 0 =>
                  /\ canvas[c].px[<<512, 512>>] = [layer |-> 0, i |-> 1]
                  /\ Covers(stamps[c][1], <<512, 512>>)
                  /\ \A k \in 2 .. Len(stamps[c]) : ~Covers(stamps[c][k], <<512, 512>>)

C6_Witness ==
    /\ pc[1] = "done"
    /\ args[1].size = 1024
    /\ args[1].image = Image(100, 100, TRUE)
    /\ Len(stamps[1]) = 365
    /\ canvas[1].px[<<512, 512>>] = [layer |-> 0, i |-> 1]
    /\ canvas[1].px[<<1023, 1023>>] = Black

\* C7: for a source with W # H every stamp of a render of positive size
\* keeps the aspect ratio inside the 2*radius box: if W > H the width is floor(2*radius) and the height
\* floor(2*radius*H/W), otherwise the height is floor(2*radius) and the width
\* floor(2*radius*W/H), each at least 1; neither side exceeds the box and
\* each side is within one pixel of the exact aspect-preserving value.
C7_AspectInsideBox ==
    \A c \in Calls :
        \A k \in 1 .. Len(stamps[c]) :
            LET W     == input_image[c].width
                H     == input_image[c].height
                box   == 2 * stamps[c][k].radius
                wide  == W > H
                exW   == IF wide THEN box ELSE Scale(box, W, H)
                exH   == IF wide THEN Scale(box, H, W) ELSE box
            IN  (W # H /\ args[c].size > 0) =>
                    /\ stamps[c][k].new_width = Max(1, exW \div FP)
                    /\ stamps[c][k].new_height = Max(1, exH \div FP)
                    /\ stamps[c][k].new_width * FP <= box
                    /\ stamps[c][k].new_height * FP <= box
                    /\ Abs(stamps[c][k].new_width * FP - exW) <= FP
                    /\ Abs(stamps[c][k].new_height * FP - exH) <= FP

\* C8: the single stamp of the first layer (count = 1, y_offset = 0) has
\* position (0, 0) and paste origin
\* (center_x - rotated.width // 2, center_y - rotated.height // 2) with
\* center = size // 2, whatever the canvas size.
C8_CentreStamp ==
    \A c \in Calls :
        \A k \in 1 .. Len(stamps[c]) :
            stamps[c][k].layer = 0 =>
                /\ k = 1
                /\ stamps[c][k].count = 1
                /\ stamps[c][k].y_offset = 0
                /\ stamps[c][k].x = 0
                /\ stamps[c][k].y = 0
                /\ stamps[c][k].paste_x = args[c].size \div 2 - stamps[c][k].rw \div 2
                /\ stamps[c][k].paste_y = args[c].size \div 2 - stamps[c][k].rh \div 2

C8_Witness ==
    /\ pc[1] = "done"
    /\ args[1].size = 1024
    /\ args[1].image = Image(200, 100, TRUE)
    /\ stamps[1][1].layer = 0
    /\ stamps[1][1].rw = 167
    /\ stamps[1][1].paste_x = 512 - 83
    /\ stamps[1][1].paste_y = 512 - 41

\* C9: a layer with count = N produces exactly N placement angles, item i at
\* 90 - i * (360 / N) degrees; consecutive angles differ by exactly 360 / N,
\* the N angles are pairwise distinct modulo 360, and the N steps from the
\* start angle 90 add up to one full circle.
C9_AngularCoverage ==
    \A c \in Calls :
        (pc[c] = "item" /\ i[c] > frame[c].count) =>
            LET N == frame[c].count
                L == OfLayer(stamps[c], layer_idx[c])
            IN  /\ Len(L) = N
                /\ \A j \in 1 .. N :
                      L[j].angle.n * N = (90 * N - 360 * j) * L[j].angle.d
                /\ \A j \in 1 .. N - 1 :
                      (L[j].angle.n * L[j + 1].angle.d - L[j + 1].angle.n * L[j].angle.d) * N
                          = 360 * L[j].angle.d * L[j + 1].angle.d
                /\ \A j \in 1 .. N : \A m \in j + 1 .. N :
                      (L[j].angle.n * L[m].angle.d - L[m].angle.n * L[j].angle.d)
                          % (360 * L[j].angle.d * L[m].angle.d) # 0
                /\ 90 * L[N].angle.d - L[N].angle.n = 360 * L[N].angle.d

C9_Witness ==
    /\ pc[1] = "item"
    /\ layer_idx[1] = 7
    /\ i[1] = 145
    /\ Len(OfLayer(stamps[1], 7)) = 144
    /\ stamps[1][Len(stamps[1])].angle = Deg(90 * 144 - 360 * 144, 144)

\* What generate_spiral_art returns when it runs alone: the item loop and
\* the layer loop run to completion on a fresh canvas.
RECURSIVE DrawItems(_, _, _, _, _, _)
DrawItems(cv, layer, fr, cen, img, k) ==
    IF k > fr.count THEN cv
    ELSE LET st == Stamp(layer, k, fr, cen, img)
         IN  DrawItems(IF Skipped(st.new_width, st.new_height) THEN cv ELSE Paste(cv, st),
                       layer, fr, cen, img, k + 1)

RECURSIVE DrawLayers(_, _, _, _, _, _)
DrawLayers(cv, k, size_now, y_now, cen, img) ==
    IF k = NumLayers THEN cv
    ELSE LET next_size == Mul61803(size_now)
         IN  DrawLayers(DrawItems(cv, k, Frame(LayerTable[k + 1], size_now, y_now), cen, img, 1),
                        k + 1, next_size, NextY(y_now, size_now, next_size), cen, img)

RenderAlone(a) ==
    IF a.size < 0 THEN NoCanvas
    ELSE DrawLayers(NewCanvas(a.size), 0, Div6103(a.size), 0,
                    <<a.size \div 2, a.size \div 2>>, a.image)

\* C10: concurrent render calls share no mutable state: the layer-count
\* table and each call's source image are never changed, each call has the
\* canvas it allocated itself, and under any interleaving a call returns
\* exactly the canvas it returns when run alone (compared once every call
\* has finished, so that nothing can touch the canvas afterwards), so two
\* calls with the same (source image, size) return the same canvas.
C10_Isolation ==
    /\ LAYERS = LayerTable
    /\ \A c \in Calls :
          /\ pc[c] \in {"layer", "item", "done"} =>
                (input_image[c] = args[c].image /\ canvas[c].size = args[c].size)
          /\ pc[c] \in {"start", "error"} => canvas[c] = NoCanvas
    /\ (\A d \in Calls : pc[d] \in {"done", "error"}) =>
          /\ \A c \in Calls : pc[c] = "done" => canvas[c] = RenderAlone(args[c])
          /\ \A c, d \in Calls :
                (pc[c] = "done" /\ pc[d] = "done" /\ args[c] = args[d]) =>
                    canvas[c] = canvas[d]

C10_Witness ==
    /\ pc[1] = "done"
    /\ pc[2] = "done"
    /\ args[1].size = 3
    /\ args[2].size = 1024
    /\ canvas[1].size = 3
    /\ canvas[1].px[<<1, 1>>] # Black
    /\ canvas[2].px[<<512, 512>>] = [layer |-> 0, i |-> 1]

\* The steps mint_prepare documents for a request.
DocumentedSteps(req) ==
    IF req.token_id = 0
    THEN <<"decode", "upload_image", "upload_metadata", "sign">>
    ELSE <<"sign">>

\* Nothing outside mint_prepare stands in the way of the request: the
\* server is fully configured, the image text decodes, and Pinata accepted
\* every upload it was sent.
Served ==
    /\ environ = EnvNames
    /\ LET s == request.image_base64
       IN  IF StartsWith(s, DataPrefix)
           THEN Len(SplitComma(s)) = 2 /\ B64Decode(SplitComma(s)[2]).ok
           ELSE B64Decode(s).ok
    /\ \A k \in 1 .. Len(pinata) : pinata[k].status = 200

\* C11: mint_prepare follows its documented step sequence.  The steps done
\* so far are always the first steps of the documented sequence (decode,
\* image upload, metadata upload, signature for token_id = 0; the signature
\* alone, with no IPFS upload, for token_id > 0), and a call that nothing
\* outside stood in the way of returns having done all of them, with a
\* success response carrying the signature, the deadline and the nonce.
C11_MintPrepareSequence ==
    mint_pc # "idle" =>
        /\ Len(steps) <= Len(DocumentedSteps(request))
        /\ steps = SubSeq(DocumentedSteps(request), 1, Len(steps))
        /\ request.token_id > 0 => pinata = <<>>
        /\ (mint_pc = "done" /\ Served) =>
               /\ steps = DocumentedSteps(request)
               /\ response.success
               /\ response.signature # None
               /\ response.deadline # None
               /\ response.nonce = Some(request.nonce)

====
